---- MODULE Spec2Model ----
(***************************************************************************)
(* Model of the dead-stock data pipeline of src/src/data_pipeline.py:      *)
(* load_data -> engineer_features -> label_dead_stock -> assembly          *)
(* (prepare_dataset), followed by the chronological train_test_split.      *)
(*                                                                         *)
(* Tables are pandas DataFrames: an index, a set of column names and a     *)
(* sequence of rows.  Python objects live in a heap so that in-place       *)
(* mutation and aliasing are visible.  Floating-point values are held as   *)
(* whole multiples of epsilon = 1e-3 (the constant the code adds to its    *)
(* divisors), together with a NaN flag; quotients round down.              *)
(*                                                                         *)
(* Columns that are only passed through (Price, Discount, Category, ...)   *)
(* and the two engineered columns that feed no later computation           *)
(* (inventory_trend, forecast_error) are left out of the rows.             *)
(***************************************************************************)
EXTENDS Integers, Sequences, FiniteSets, TLC

\* ------------------------------------------------------------------ bounds
MaxRows == 3                        \* rows of an input table
MaxLen == 10
MaxSeries == 32                        \* dataset length when the cut alone is computed

\* ----------------------------------------------------------------- numbers
EpsDigits == 3                      \* epsilon = 1e-3
EpsInv == 10 ^ EpsDigits            \* units per 1.0

NaN == [nan |-> TRUE, v |-> 0]
Num(x) == [nan |-> FALSE, v |-> x]
FromInt(k) == Num(k * EpsInv)
One == FromInt(1)
Zero == Num(0)
Eps == Num(1)

Add(a, b) == IF a.nan \/ b.nan THEN NaN ELSE Num(a.v + b.v)
Sub(a, b) == IF a.nan \/ b.nan THEN NaN ELSE Num(a.v - b.v)
\* a / b.  Every divisor of the code is v + 1e-3 with v >= 0, or a span / max
\* that is replaced by 1.0 when it is zero, so the only zero divisor is 0/0.
RECURSIVE FracDigits(_, _, _)
FracDigits(r, b, n) ==
    IF n = 0 THEN 0
    ELSE ((r * 10) \div b) * 10 ^ (n - 1) + FracDigits((r * 10) % b, b, n - 1)
Div(a, b) ==
    IF a.nan \/ b.nan \/ b.v = 0 THEN NaN
    ELSE Num((a.v \div b.v) * EpsInv + FracDigits(a.v % b.v, b.v, EpsDigits))
\* comparisons with NaN are False
Gt(a, b) == ~a.nan /\ ~b.nan /\ a.v > b.v
Le(a, b) == ~a.nan /\ ~b.nan /\ a.v <= b.v
Lt(a, b) == ~a.nan /\ ~b.nan /\ a.v < b.v
EqNum(a, b) == ~a.nan /\ ~b.nan /\ a.v = b.v
\* Series.clip(0, 1): NaN stays NaN
Clip01(a) == IF a.nan THEN NaN ELSE IF a.v < 0 THEN Zero ELSE IF a.v > EpsInv THEN One ELSE a
\* variant: NaN passes through
nan_kept(a) == a
nan_to_num(a) == IF a.nan THEN Zero ELSE a

\* ------------------------------------------------------------ seq helpers
RECURSIVE SumSeq(_)
SumSeq(s) == IF s = <<>> THEN 0 ELSE s[1] + SumSeq(Tail(s))
\* the positions i, ascending, at which the boolean sequence keep is TRUE
SelectIdx(keep) ==
    LET RECURSIVE go(_)
        go(i) == IF i > Len(keep) THEN <<>>
                 ELSE IF keep[i] THEN <<i>> \o go(i + 1) ELSE go(i + 1)
    IN go(1)
Permute(s, p) == [i \in 1..Len(p) |-> s[p[i]]]
\* stable sort of the positions 1..n under a strict order Less[i][j] on positions
StableOrder(n, Less) ==
    LET RECURSIVE ins(_, _)
        ins(sorted, x) ==
            IF sorted = <<>> THEN <<x>>
            ELSE IF Less[x][sorted[1]] THEN <<x>> \o sorted
            ELSE <<sorted[1]>> \o ins(Tail(sorted), x)
        RECURSIVE go(_)
        go(k) == IF k = 0 THEN <<>> ELSE ins(go(k - 1), k)
    IN go(n)

\* ------------------------------------------------------------------- dates
\* raw date text as it stands in a CSV cell or an un-parsed frame cell
GoodDates == <<"1/3/2022", "1/8/2022", "1/10/2022">>
GoodDateText == {GoodDates[i] : i \in DOMAIN GoodDates}
BadDateText == {"n/a"}
DateText == GoodDateText \cup BadDateText
\* the cell texts in string order: character by character, digits before letters
TextOrder == <<"1/10/2022", "1/3/2022", "1/8/2022", "n/a">>
TextRank(s) == CHOOSE i \in DOMAIN TextOrder : TextOrder[i] = s
\* pd.to_datetime of one cell: the day ordinal within 2022
Parseable(s) == s \in GoodDateText
ParseDate(s) == CASE s = "1/3/2022" -> 3 [] s = "1/8/2022" -> 8 [] s = "1/10/2022" -> 10
\* a Date cell is text or a timestamp
TextCell(s) == [text |-> s, ts |-> 0]
TsCell(d) == [text |-> "", ts |-> d]
IsTs(c) == c.text = ""
CellLess(c1, c2) ==
    IF IsTs(c1) THEN c1.ts < c2.ts ELSE TextRank(c1.text) < TextRank(c2.text)
dayofyear(c) == c.ts
month(c) == 1
weekday(c) == (c.ts + 4) % 7          \* 2022-01-01 is a Saturday (5)

\* ------------------------------------------------------------------ tables
NoCell == [text |-> "", ts |-> 0]
InputColumns ==
    {"Store ID", "Product ID", "Inventory Level", "Units Sold", "Units Ordered",
     "Demand Forecast"}
RangeIndex(n) == [i \in 1..n |-> i - 1]
Frame(cols, rows, dtype) ==
    [columns |-> cols, index |-> RangeIndex(Len(rows)), rows |-> rows, dtype |-> dtype]

\* object ids
SRC == 1
Alloc(h) == Cardinality(DOMAIN h) + 1
Store(h, ref, t) == [r \in DOMAIN h \cup {ref} |-> IF r = ref THEN t ELSE h[r]]
Returned(h, ref) == [heap |-> h, ret |-> ref, exc |-> ""]
Raised(h, e) == [heap |-> h, ret |-> 0, exc |-> e]

\* pd.read_csv(source, parse_dates=["Date"]): a missing Date column raises; a
\* column holding a value that does not parse is returned unaltered as text.
read_csv(h, file) ==
    IF "Date" \notin file.columns THEN Raised(h, "ValueError")
    ELSE IF \A i \in DOMAIN file.rows : Parseable(file.rows[i].Date.text)
    THEN Returned(Store(h, Alloc(h),
             Frame(file.columns,
                   [i \in DOMAIN file.rows |->
                       [file.rows[i] EXCEPT !.Date = TsCell(ParseDate(@.text))]],
                   "datetime64")), Alloc(h))
    ELSE Returned(Store(h, Alloc(h), Frame(file.columns, file.rows, "object")), Alloc(h))

\* variant: no copy is taken, the caller's object itself is returned
copy_alias(h, ref) == Returned(h, ref)
\* source.copy()
copy(h, ref) == Returned(Store(h, Alloc(h), h[ref]), Alloc(h))

\* df["Date"] = pd.to_datetime(df["Date"]) on the table at ref
to_datetime(h, ref) ==
    LET t == h[ref] IN
    IF \E i \in DOMAIN t.rows : ~IsTs(t.rows[i].Date) /\ ~Parseable(t.rows[i].Date.text)
    THEN Raised(h, "ValueError")
    ELSE Returned(Store(h, ref,
             [t EXCEPT !.rows = [i \in DOMAIN t.rows |->
                                    IF IsTs(t.rows[i].Date) THEN t.rows[i]
                                    ELSE [t.rows[i] EXCEPT !.Date = TsCell(ParseDate(@.text))]],
                       !.dtype = "datetime64"]), ref)

\* df.sort_values(["Store ID", "Product ID", "Date"], inplace=True)
KeyLess(r1, r2) ==
    \/ r1.store < r2.store
    \/ r1.store = r2.store /\ r1.product < r2.product
    \/ r1.store = r2.store /\ r1.product = r2.product /\ CellLess(r1.Date, r2.Date)
sort_values_key(t) ==
    LET Less == [i \in DOMAIN t.rows |-> [j \in DOMAIN t.rows |-> KeyLess(t.rows[i], t.rows[j])]]
        p == StableOrder(Len(t.rows), Less)
    IN [t EXCEPT !.rows = Permute(t.rows, p), !.index = Permute(t.index, p)]
\* df.reset_index(drop=True, inplace=True)
reset_index(t) == [t EXCEPT !.index = RangeIndex(Len(t.rows))]

SortAndReset(r) ==
    IF r.exc # "" THEN r
    ELSE Returned(Store(r.heap, r.ret, reset_index(sort_values_key(r.heap[r.ret]))), r.ret)

load_data(h, source) ==
    IF source.kind = "path" THEN SortAndReset(read_csv(h, h[source.ref]))
    ELSE IF source.kind = "frame" THEN
        LET c == copy(h, source.ref) IN
        IF "Date" \in c.heap[c.ret].columns
        THEN SortAndReset(to_datetime(c.heap, c.ret))
        ELSE Raised(c.heap, "ValueError")
    ELSE Raised(h, "TypeError")

\* ------------------------------------------------------- feature engineer
SameGroup(r1, r2) == r1.store = r2.store /\ r1.product = r2.product
\* positions of the rows of row i's group, in frame order (groupby(sort=False))
GroupOf(rows, i) == SelectIdx([j \in DOMAIN rows |-> SameGroup(rows[j], rows[i])])
PosIn(g, i) == CHOOSE k \in DOMAIN g : g[k] = i
Max2(a, b) == IF a > b THEN a ELSE b

\* variant: the window reaches one row further back
rolling_mean_wide(series, k, w) ==
    LET obs == SelectIdx([j \in DOMAIN series |->
                            j >= Max2(1, k - w) /\ j <= k /\ ~series[j].nan])
    IN IF obs = <<>> THEN NaN
       ELSE Num(SumSeq([j \in DOMAIN obs |-> series[obs[j]].v]) \div Len(obs))
\* s.rolling(w, min_periods=1).mean() at the k-th row of a group's series:
\* the mean of the non-NaN values among the last w rows up to k, NaN if none
rolling_mean(series, k, w) ==
    LET obs == SelectIdx([j \in DOMAIN series |->
                            j >= Max2(1, k - w + 1) /\ j <= k /\ ~series[j].nan])
    IN IF obs = <<>> THEN NaN
       ELSE Num(SumSeq([j \in DOMAIN obs |-> series[obs[j]].v]) \div Len(obs))

\* _days_since_last_sale: counter = 0 if value > 0 else counter + 1, from counter = 0
\* variant: a day without a sale counts 1 instead of adding to the counter
days_fold_no_carry(values, counter) ==
    [i \in DOMAIN values |-> IF Gt(values[i], Zero) THEN 0 ELSE 1]
RECURSIVE days_fold(_, _)
days_fold(values, counter) ==
    IF values = <<>> THEN <<>>
    ELSE LET c == IF Gt(values[1], Zero) THEN 0 ELSE counter + 1
         IN <<c>> \o days_fold(Tail(values), c)
\* variant: the counter starts one below zero
days_since_from_minus_one(values) == days_fold(values, 0 - 1)
days_since_last_sale(values) == days_fold(values, 0)

\* grouped[col]: the series of column col over the group of row i, in frame order
GroupSeries(rows, col, i) == LET g == GroupOf(rows, i) IN [k \in DOMAIN g |-> rows[g[k]][col]]
\* the position of row i within its group, where transform writes the result back
GroupPos(rows, i) == PosIn(GroupOf(rows, i), i)

Window7 == 7
Window30 == 30

\* np.nanmax / np.nanmin of a non-empty array: NaN when every value is NaN
NonNaN(vals) == {vals[i].v : i \in {j \in DOMAIN vals : ~vals[j].nan}}
nanmax(vals) ==
    IF NonNaN(vals) = {} THEN NaN ELSE Num(CHOOSE m \in NonNaN(vals) : \A x \in NonNaN(vals) : x <= m)
nanmin(vals) ==
    IF NonNaN(vals) = {} THEN NaN ELSE Num(CHOOSE m \in NonNaN(vals) : \A x \in NonNaN(vals) : m <= x)
\* Python truthiness of a float: 0.0 is false, NaN is true
Truthy(a) == a.nan \/ a.v # 0

\* variant: the minimum is not subtracted
minmax_norm_no_shift(vals) ==
    LET span == Sub(nanmax(vals), nanmin(vals))
        d == IF Truthy(span) THEN span ELSE One
    IN [i \in DOMAIN vals |-> nan_to_num(Div(vals[i], d))]
\* (values - min) / (span if span else 1.0), NaN to 0
minmax_norm(vals) ==
    LET min_val == nanmin(vals)
        span == Sub(nanmax(vals), min_val)
        d == IF Truthy(span) THEN span ELSE One
    IN [i \in DOMAIN vals |-> nan_to_num(Div(Sub(vals[i], min_val), d))]
\* values / (nanmax or 1.0), NaN to 0
max_norm(vals) ==
    LET m == nanmax(vals)
        max_val == IF Truthy(m) THEN m ELSE One
    IN [i \in DOMAIN vals |-> nan_to_num(Div(vals[i], max_val))]

RawEngineered ==
    {"rolling_sales_7", "rolling_sales_30", "rolling_inventory_30", "sell_through_rate",
     "days_since_sale", "order_gap"}
NormColumns == {"rolling_inventory_30_norm", "days_since_sale_norm", "sell_through_rate_norm"}

\* the rows after lines 74-91: the group-wise and row-wise signals
WithSignals(rows) ==
    LET rs7 == [i \in DOMAIN rows |->
                   rolling_mean(GroupSeries(rows, "units", i), GroupPos(rows, i), Window7)]
        rs30 == [i \in DOMAIN rows |->
                   rolling_mean(GroupSeries(rows, "units", i), GroupPos(rows, i), Window30)]
        ri30 == [i \in DOMAIN rows |->
                   rolling_mean(GroupSeries(rows, "inv", i), GroupPos(rows, i), Window30)]
        dss == [i \in DOMAIN rows |->
                   days_since_last_sale(GroupSeries(rows, "units", i))[GroupPos(rows, i)]]
    IN [i \in DOMAIN rows |->
          [rolling_sales_7 |-> rs7[i],
           rolling_sales_30 |-> rs30[i],
           rolling_inventory_30 |-> ri30[i],
           sell_through_rate |-> Div(rs30[i], Add(ri30[i], Eps)),
           days_since_sale |-> dss[i],
           order_gap |-> Sub(rows[i].ordered, rows[i].units)] @@ rows[i]]

\* the rows after the normalisation loop, lines 94-104
WithNorms(rows) ==
    LET inv_n == minmax_norm([i \in DOMAIN rows |-> rows[i].rolling_inventory_30])
        dss_n == minmax_norm([i \in DOMAIN rows |-> FromInt(rows[i].days_since_sale)])
        str_n == max_norm([i \in DOMAIN rows |-> rows[i].sell_through_rate])
    IN [i \in DOMAIN rows |->
          [rolling_inventory_30_norm |-> inv_n[i],
           days_since_sale_norm |-> dss_n[i],
           sell_through_rate_norm |-> str_n[i]] @@ rows[i]]

\* engineer_features(df): writes the new columns into df itself and returns df.
\* np.nanmin of a zero-size array raises ValueError, after lines 74-91 have run.
engineer_features(h, ref) ==
    LET t == h[ref]
        sig == [t EXCEPT !.rows = WithSignals(t.rows),
                         !.columns = @ \cup RawEngineered]
    IN IF t.rows = <<>> THEN Raised(Store(h, ref, sig), "ValueError")
       ELSE Returned(Store(h, ref, [sig EXCEPT !.rows = WithNorms(sig.rows),
                                               !.columns = @ \cup NormColumns]), ref)

\* ------------------------------------------------------------ risk labeler
Mul(a, b) == IF a.nan \/ b.nan THEN NaN ELSE Num((a.v * b.v) \div EpsInv)
Tenths(k) == Num((k * EpsInv) \div 10)
QuantilePct == 45

\* Series.quantile(q): linear interpolation over the sorted non-NaN values
quantile(vals, pct) ==
    LET nn == SelectIdx([i \in DOMAIN vals |-> ~vals[i].nan])
        m == Len(nn)
        ord == StableOrder(m, [i \in 1..m |-> [j \in 1..m |-> vals[nn[i]].v < vals[nn[j]].v]])
        srt == [k \in 1..m |-> vals[nn[ord[k]]].v]
        lo == (pct * (m - 1)) \div 100
        fr == (pct * (m - 1)) % 100
    IN IF m = 0 THEN NaN
       ELSE IF fr = 0 THEN Num(srt[lo + 1])
       ELSE Num(srt[lo + 1] + ((srt[lo + 2] - srt[lo + 1]) * fr) \div 100)

high_inventory(r, q) == Gt(r.rolling_inventory_30, q)
slow_turnover(r) == Le(r.rolling_sales_7, Mul(Tenths(1), r.rolling_inventory_30))
weak_sell_through(r) == Lt(r.sell_through_rate, Tenths(3))
overstock_vs_forecast(r) == Gt(Sub(r.inv, r.forecast), FromInt(50))
no_sales_today(r) == EqNum(r.units, Zero)
low_units_sold(r) == Le(r.units, FromInt(5))

\* variant: the inventory gate applied to every disjunct
dead_stock_rule_gated(r, q) ==
    high_inventory(r, q) /\
        (\/ slow_turnover(r)
         \/ overstock_vs_forecast(r) /\ weak_sell_through(r)
         \/ no_sales_today(r)
         \/ low_units_sold(r))
dead_stock_rule(r, q) ==
    \/ high_inventory(r, q) /\ slow_turnover(r)
    \/ overstock_vs_forecast(r) /\ weak_sell_through(r)
    \/ high_inventory(r, q) /\ no_sales_today(r)
    \/ high_inventory(r, q) /\ low_units_sold(r)

risk_score(r) ==
    Clip01(Add(Add(Mul(Tenths(4), r.rolling_inventory_30_norm),
                   Mul(Tenths(3), Sub(One, r.sell_through_rate_norm))),
               Mul(Tenths(3),
                   nan_to_num(Sub(One,
                       Clip01(Div(r.rolling_sales_7, Add(r.rolling_inventory_30, Eps))))))))

LabelColumns == {"dead_stock_label", "risk_score"}
WithLabels(rows) ==
    LET q == quantile([i \in DOMAIN rows |-> rows[i].rolling_inventory_30], QuantilePct)
    IN [i \in DOMAIN rows |->
          [dead_stock_label |-> IF dead_stock_rule(rows[i], q) THEN 1 ELSE 0,
           risk_score |-> risk_score(rows[i])] @@ rows[i]]

\* label_dead_stock(df): writes the two columns into df itself and returns df
label_dead_stock(h, ref) ==
    Returned(Store(h, ref, [h[ref] EXCEPT !.rows = WithLabels(@),
                                          !.columns = @ \cup LabelColumns]), ref)

\* -------------------------------------------------------- dataset assembler
\* features = df[feature_cols].copy() plus the calendar columns, Date dropped
FeatureRow(r) ==
    [rec |-> r.rec, store |-> r.store, product |-> r.product,
     units |-> r.units, inv |-> r.inv, forecast |-> r.forecast, ordered |-> r.ordered,
     rolling_sales_7 |-> r.rolling_sales_7, rolling_sales_30 |-> r.rolling_sales_30,
     rolling_inventory_30 |-> r.rolling_inventory_30,
     sell_through_rate |-> r.sell_through_rate, days_since_sale |-> r.days_since_sale,
     order_gap |-> r.order_gap, risk_score |-> r.risk_score,
     day_of_year |-> dayofyear(r.Date), month |-> month(r.Date),
     is_weekend |-> weekday(r.Date) >= 5]
FeatureColumns ==
    InputColumns \cup (RawEngineered \cup {"risk_score", "day_of_year", "month", "is_weekend"})

features_of(t) ==
    [columns |-> FeatureColumns, index |-> t.index,
     rows |-> [i \in DOMAIN t.rows |-> FeatureRow(t.rows[i])], dtype |-> ""]
\* variant: the label values in reverse row order
labels_reversed(t) ==
    [index |-> t.index,
     values |-> [i \in DOMAIN t.rows |-> t.rows[Len(t.rows) + 1 - i].dead_stock_label],
     rec |-> [i \in DOMAIN t.rows |-> t.rows[i].rec]]
\* labels = df["dead_stock_label"].copy(): a Series sharing df's index
labels_of(t) ==
    [index |-> t.index,
     values |-> [i \in DOMAIN t.rows |-> t.rows[i].dead_stock_label],
     rec |-> [i \in DOMAIN t.rows |-> t.rows[i].rec]]

\* lines 147-170 of prepare_dataset; the .dt accessor raises on a text column
assemble(h, ref) ==
    LET t == h[ref]
        f == Alloc(h)
    IN IF t.dtype # "datetime64" THEN Raised(h, "AttributeError")
       ELSE [heap |-> Store(Store(Store(h, f, features_of(t)), f + 1, labels_of(t)), f + 2, t),
             ret |-> [features |-> f, labels |-> f + 1, raw |-> f + 2],
             exc |-> ""]

\* ---------------------------------------------------- chronological split
\* data.features.assign(dead_stock=data.labels, Date=data.raw["Date"].values):
\* the labels are aligned on the index, the dates are taken by position
label_at(labels, ix) ==
    LET at == {k \in DOMAIN labels.index : labels.index[k] = ix}
    IN IF at = {} THEN NaN ELSE FromInt(labels.values[CHOOSE k \in at : TRUE])
assigned(h, data) ==
    LET f == h[data.features] IN
    [i \in DOMAIN f.rows |->
        [dead_stock |-> label_at(h[data.labels], f.index[i]),
         Date |-> h[data.raw].rows[i].Date] @@ f.rows[i]]

\* variant: the two columns are written into data.features itself
assign_in_place(h, data) ==
    Returned(Store(h, data.features,
                   [h[data.features] EXCEPT !.rows = assigned(h, data),
                                            !.columns = @ \cup {"dead_stock", "Date"}]),
             data.features)
\* data.features.assign(...) returns a new frame, data.features keeps its columns
assign(h, data) ==
    Returned(Store(h, Alloc(h),
                   [h[data.features] EXCEPT !.rows = assigned(h, data),
                                            !.columns = @ \cup {"dead_stock", "Date"}]),
             Alloc(h))

\* df.sort_values("Date", inplace=True): the default sort is not stable, so any
\* order of the positions with non-decreasing dates may result
Perms(n) == {p \in [1..n -> 1..n] : \A i, j \in 1..n : i # j => p[i] # p[j]}
DateOrders(rows) ==
    {p \in Perms(Len(rows)) :
        \A i \in 1..(Len(rows) - 1) : ~CellLess(rows[p[i + 1]].Date, rows[p[i]].Date)}

\* ---- IEEE-754 binary64 arithmetic of int(len(df) * (1 - test_size)) ----
\* A natural number is its sequence of bits, least significant first; a double
\* is m * 2^e with m of at most DoubleBits bits.
DoubleBits == 53
Bit(a, i) == IF i <= Len(a) THEN a[i] ELSE 0
BTrim(a) ==
    LET ones == {i \in DOMAIN a : a[i] = 1}
    IN IF ones = {} THEN <<>> ELSE SubSeq(a, 1, CHOOSE i \in ones : \A j \in ones : j <= i)
RECURSIVE FromNat(_)
FromNat(n) == IF n = 0 THEN <<>> ELSE <<n % 2>> \o FromNat(n \div 2)
RECURSIVE ToNat(_)
ToNat(a) == IF a = <<>> THEN 0 ELSE a[1] + 2 * ToNat(Tail(a))
Shl(a, k) == IF a = <<>> THEN <<>> ELSE [i \in 1..k |-> 0] \o a
Shr(a, k) == IF k >= Len(a) THEN <<>> ELSE SubSeq(a, k + 1, Len(a))
\* a + b: the carry into bit i is generated at some lower bit and propagated up to i
BAdd(a, b) ==
    LET carry(i) == \E j \in 1..(i - 1) :
                        /\ Bit(a, j) + Bit(b, j) = 2
                        /\ \A k \in (j + 1)..(i - 1) : Bit(a, k) + Bit(b, k) >= 1
    IN BTrim([i \in 1..(Max2(Len(a), Len(b)) + 1) |->
                (Bit(a, i) + Bit(b, i) + (IF carry(i) THEN 1 ELSE 0)) % 2])
\* a - b for a >= b: the borrow into bit i likewise
BSub(a, b) ==
    LET borrow(i) == \E j \in 1..(i - 1) :
                        /\ Bit(a, j) < Bit(b, j)
                        /\ \A k \in (j + 1)..(i - 1) : Bit(a, k) <= Bit(b, k)
    IN BTrim([i \in 1..Len(a) |->
                (Bit(a, i) - Bit(b, i) - (IF borrow(i) THEN 1 ELSE 0) + 2) % 2])
RECURSIVE BMul(_, _)
BMul(a, n) ==
    IF n = 0 THEN <<>>
    ELSE IF n % 2 = 1 THEN BAdd(a, Shl(BMul(a, n \div 2), 1))
    ELSE Shl(BMul(a, n \div 2), 1)
\* 2^t mod 20, and the t-th binary digit of k/10 (t = 0 is the units digit):
\* floor(k * 2^t / 10) mod 2
Pow2Mod20(t) == IF t = 0 THEN 1 ELSE IF t = 1 THEN 2 ELSE <<4, 8, 16, 12>>[((t - 2) % 4) + 1]
TenthsDigit(k, t) == IF (k * Pow2Mod20(t)) % 20 >= 10 THEN 1 ELSE 0
GuardBits == DoubleBits + 7          \* bits kept below the mantissa before rounding
\* floor(k * 2^GuardBits / 10) and whether a remainder is left
TenthsBits(k) ==
    [q |-> BTrim([i \in 1..(GuardBits + 1) |-> TenthsDigit(k, GuardBits + 1 - i)]),
     r |-> (k * Pow2Mod20(GuardBits)) % 10]
\* round x (plus a non-zero tail below it when sticky) to DoubleBits bits, ties to even
RoundNearestEven(x, sticky) ==
    LET d == Len(BTrim(x)) - DoubleBits
        kept == Shr(x, d)
        tail == sticky \/ \E i \in 1..(d - 1) : x[i] = 1
        up == x[d] = 1 /\ (tail \/ kept[1] = 1)
    IN IF d <= 0 THEN [m |-> BTrim(x), sh |-> 0]
       ELSE [m |-> IF up THEN BAdd(kept, <<1>>) ELSE kept, sh |-> d]
\* the double the literal k/10 denotes
DoubleOfTenths(k) ==
    LET r == RoundNearestEven(TenthsBits(k).q, TenthsBits(k).r # 0)
    IN [m |-> r.m, e |-> r.sh - GuardBits]
\* 1 - d for a double 0 <= d <= 1
FSubFromOne(d) ==
    LET r == RoundNearestEven(BSub(Shl(<<1>>, 0 - d.e), d.m), FALSE)
    IN IF d.m = <<>> THEN [m |-> <<1>>, e |-> 0] ELSE [m |-> r.m, e |-> d.e + r.sh]
\* n * s
FMulInt(n, s) ==
    LET r == RoundNearestEven(BMul(s.m, n), FALSE) IN [m |-> r.m, e |-> s.e + r.sh]
\* int(s) for s >= 0: truncation
FInt(s) == IF s.e >= 0 THEN ToNat(Shl(s.m, s.e)) ELSE ToNat(Shr(s.m, 0 - s.e))

\* int(len(df) * (1 - test_size)), test_size the literal tenths/10
int_len_times(n, tenths) == FInt(FMulInt(n, FSubFromOne(DoubleOfTenths(tenths))))
\* the same, tabulated once for every length and test size the model uses
SplitIdxTable == [n \in 0..Max2(MaxLen, MaxRows) |-> [k \in 0..10 |-> int_len_times(n, k)]]
split_idx(n, tenths) == SplitIdxTable[n][tenths]

DropSplitCols(r) == [k \in (DOMAIN r) \ {"dead_stock", "Date"} |-> r[k]]
train_test_split(h, data, tenths, p) ==
    LET a == assign(h, data)
        df == Permute(a.heap[a.ret].rows, p)
        ix == Permute(a.heap[a.ret].index, p)
        cut == split_idx(Len(df), tenths)
        train == 1..cut
        test == (cut + 1)..Len(df)
    IN [heap |-> Store(a.heap, a.ret, [a.heap[a.ret] EXCEPT !.rows = df, !.index = ix]),
        train_X |-> [i \in train |-> DropSplitCols(df[i])],
        test_X |-> [i \in 1..(Len(df) - cut) |-> DropSplitCols(df[cut + i])],
        train_y |-> [i \in train |-> df[i].dead_stock],
        test_y |-> [i \in 1..(Len(df) - cut) |-> df[cut + i].dead_stock],
        train_index |-> [i \in train |-> ix[i]],
        test_index |-> [i \in 1..(Len(df) - cut) |-> ix[cut + i]]]

\* --------------------------------------------------------------- inputs
Keys == {<<1, 2>>, <<2, 1>>}
ForecastValue == FromInt(40)
OrderedValue == FromInt(10)
TestSizes == {0, 2, 5, 10}            \* test_size 0, 0.2 (the default), 0.5, 1

InputRow(key, text, u, v) ==
    [rec |-> 0, store |-> key[1], product |-> key[2], Date |-> TextCell(text),
     units |-> u, inv |-> v, forecast |-> ForecastValue, ordered |-> OrderedValue]
Numbered(rows) == [i \in DOMAIN rows |-> [rows[i] EXCEPT !.rec = i]]
TablesOver(rowset) == UNION {[1..n -> rowset] : n \in 0..MaxRows}
DateAt(i) == GoodDates[((i - 1) % Len(GoodDates)) + 1]

\* rows in any order of group and date, sales and stock tied to the date
OrderTables ==
    TablesOver({InputRow(k, d, IF d = GoodDates[1] THEN FromInt(5) ELSE Zero,
                               IF d = GoodDates[1] THEN FromInt(100) ELSE Zero) :
                   k \in Keys, d \in {GoodDates[1], GoodDates[2]}})
\* rows listed newest first, each in either group, with or without a sale
GroupTables ==
    {[i \in DOMAIN t |-> InputRow(t[i][1], DateAt(Len(t) + 1 - i), t[i][2], FromInt(100))] :
        t \in TablesOver(Keys \X {Zero, FromInt(5)})}
\* (Units Sold, Inventory Level) observations: present, zero and missing
ValueCells ==
    {<<Zero, Zero>>, <<FromInt(40), FromInt(100)>>, <<Zero, FromInt(100)>>,
     <<FromInt(40), Zero>>, <<NaN, NaN>>}
\* one group, newest first, with varying and missing observations
ValueTables ==
    {[i \in DOMAIN t |-> InputRow(<<1, 1>>, DateAt(Len(t) + 1 - i), t[i][1], t[i][2])] :
        t \in TablesOver(ValueCells)}
\* a date cell that does not parse
BadDateTables ==
    TablesOver({InputRow(<<1, 1>>, d, FromInt(5), FromInt(100)) :
                   d \in {GoodDates[2], GoodDates[3]} \cup BadDateText})

AllColumns == InputColumns \cup {"Date"}
DatedFrame(t) == Frame(AllColumns, Numbered(t), "object")
UndatedFrame(t) ==
    Frame(InputColumns, [i \in DOMAIN t |-> [Numbered(t)[i] EXCEPT !.Date = NoCell]], "")
\* a CSV file holds at least one record
Sources ==
    {[kind |-> "path", table |-> DatedFrame(t)] :
        t \in (OrderTables \cup GroupTables \cup BadDateTables) \ {<<>>}}
    \cup {[kind |-> "frame", table |-> DatedFrame(t)] :
        t \in OrderTables \cup GroupTables \cup ValueTables \cup BadDateTables}
    \cup {[kind |-> k, table |-> UndatedFrame(t)] :
        k \in {"path", "frame"}, t \in {u \in BadDateTables : Len(u) = 1}}
    \cup {[kind |-> "other", table |-> UndatedFrame(<<>>)]}

\* ---------------------------------------------------------------- state
VARIABLES
    heap,       \* object id -> table; SRC is the caller's table or the file
    source,     \* the argument of prepare_dataset: [kind, ref]
    pc,         \* position inside prepare_dataset / after it
    df,         \* prepare_dataset's local df (an object id)
    data,       \* the PreparedData returned (object ids of features, labels, raw)
    exc,        \* the exception that ended the call, "" if none
    call,       \* the last stage called: its name, argument, argument's prior value, result
    first,      \* the PreparedData values of the first run, kept by the caller
    run,        \* 1 or 2: which call of prepare_dataset on the same source this is
    split,      \* the result of train_test_split, <<>> before it
    given,      \* the source table as the caller handed it over (never written)
    cut         \* the cut computed on its own: [n, tenths, idx], idx = -1 before

vars == <<heap, source, pc, df, data, exc, call, first, run, split, given, cut>>

NoData == [features |-> 0, labels |-> 0, raw |-> 0]
NoCall == [fn |-> "", arg |-> 0, pre |-> <<>>, ret |-> 0]
NoSplit == <<>>
NoCut == [n |-> 0, tenths |-> 0, idx |-> -1]
CallOf(fn, arg, r) == [fn |-> fn, arg |-> arg, pre |-> heap[arg], ret |-> r.ret]
ValuesOf(h, d) == [features |-> h[d.features], labels |-> h[d.labels], raw |-> h[d.raw]]

Init ==
    /\ \E s \in Sources :
          /\ heap = [r \in {SRC} |-> s.table]
          /\ source = [kind |-> s.kind, ref |-> SRC]
          /\ given = s.table
    /\ cut = NoCut
    /\ pc = "start"
    /\ df = 0
    /\ data = NoData
    /\ exc = ""
    /\ call = NoCall
    /\ first = <<>>
    /\ run = 1
    /\ split = NoSplit

\* one stage of prepare_dataset: df = stage(df)
Stage(r, fn, arg, next) ==
    /\ heap' = r.heap
    /\ call' = CallOf(fn, arg, r)
    /\ exc' = r.exc
    /\ df' = r.ret
    /\ pc' = IF r.exc = "" THEN next ELSE "raised"
    /\ UNCHANGED <<source, data, first, run, split, given, cut>>

LoadData ==
    /\ pc = "start"
    /\ Stage(load_data(heap, source), "load_data", source.ref, "loaded")

EngineerFeatures ==
    /\ pc = "loaded"
    /\ Stage(engineer_features(heap, df), "engineer_features", df, "engineered")

LabelDeadStock ==
    /\ pc = "engineered"
    /\ Stage(label_dead_stock(heap, df), "label_dead_stock", df, "labeled")

Assemble ==
    /\ pc = "labeled"
    /\ LET r == assemble(heap, df) IN
         /\ heap' = r.heap
         /\ exc' = r.exc
         /\ data' = IF r.exc = "" THEN r.ret ELSE NoData
         /\ pc' = IF r.exc = "" THEN "prepared" ELSE "raised"
         /\ call' = [fn |-> "assemble", arg |-> df, pre |-> heap[df], ret |-> 0]
    /\ UNCHANGED <<source, df, first, run, split, given, cut>>

\* the training script prepares the dataset once and splits it
TrainTestSplit ==
    /\ pc = "prepared"
    /\ run = 1
    /\ \E tenths \in TestSizes :
         \E p \in DateOrders(assigned(heap, data)) :
            LET r == train_test_split(heap, data, tenths, p) IN
            /\ split' = [test_size |-> tenths, n |-> Len(heap[data.features].rows),
                         pre |-> ValuesOf(heap, data)] @@ r
            /\ heap' = r.heap
    /\ pc' = "split"
    /\ UNCHANGED <<source, df, data, exc, call, first, run, given, cut>>

\* the caller keeps the first outcome and calls prepare_dataset again on the same source
Rerun ==
    /\ pc \in {"prepared", "raised"}
    /\ run = 1
    /\ first' = IF pc = "prepared" THEN [exc |-> ""] @@ ValuesOf(heap, data) ELSE [exc |-> exc]
    /\ run' = 2
    /\ pc' = "start"
    /\ df' = 0
    /\ data' = NoData
    /\ exc' = ""
    /\ call' = NoCall
    /\ UNCHANGED <<heap, source, split, given, cut>>

Next ==
    \/ LoadData
    \/ EngineerFeatures
    \/ LabelDeadStock
    \/ Assemble
    \/ TrainTestSplit
    \/ Rerun

Spec == Init /\ [][Next]_vars

\* ------------------------------------------- the cut as a function of (n, f)
CutInit ==
    /\ \E n \in 0..MaxLen, k \in 0..10 : cut = [n |-> n, tenths |-> k, idx |-> -1]
    /\ heap = [r \in {SRC} |-> UndatedFrame(<<>>)]
    /\ source = [kind |-> "other", ref |-> SRC]
    /\ given = UndatedFrame(<<>>)
    /\ pc = "cut"
    /\ df = 0
    /\ data = NoData
    /\ exc = ""
    /\ call = NoCall
    /\ first = <<>>
    /\ run = 1
    /\ split = NoSplit

ComputeCut ==
    /\ pc = "cut"
    /\ cut.idx = -1
    /\ cut' = [cut EXCEPT !.idx = split_idx(cut.n, cut.tenths)]
    /\ UNCHANGED <<heap, source, pc, df, data, exc, call, first, run, split, given>>

CutSpec == CutInit /\ [][ComputeCut]_vars

\* ---- engineer_features on a loaded history longer than the windows ----
\* group <<1, 1>> with n daily rows, then group <<1, 2>> with m rows, as
\* load_data leaves them: sorted, Date parsed, index 0..n+m-1
SalesPattern(kind, j) == IF kind = 1 THEN FromInt(((j * 7) % 5) * 10) ELSE FromInt((j % 3) * 20)
StockPattern(j) == FromInt(100 + (j % 4) * 10)
HistoryRow(key, j, u, v) == [InputRow(key, "", u, v) EXCEPT !.Date = TsCell(j)]
History(n, m, kind, hole) ==
    Numbered([i \in 1..(n + m) |->
        IF i <= n
        THEN IF i = hole THEN HistoryRow(<<1, 1>>, i, NaN, NaN)
             ELSE HistoryRow(<<1, 1>>, i, SalesPattern(kind, i), StockPattern(i))
        ELSE HistoryRow(<<1, 2>>, i - n, FromInt(40), Zero)])
Histories ==
    {History(n, m, kind, hole) :
        n \in 1..MaxSeries, m \in {0, 3}, kind \in {1, 2}, hole \in {0, 1, 5}}

RollInit ==
    /\ \E t \in Histories :
          /\ heap = [r \in {SRC} |-> Frame(AllColumns, t, "datetime64")]
          /\ given = Frame(AllColumns, t, "datetime64")
    /\ source = [kind |-> "frame", ref |-> SRC]
    /\ cut = NoCut
    /\ pc = "loaded"
    /\ df = SRC
    /\ data = NoData
    /\ exc = ""
    /\ call = NoCall
    /\ first = <<>>
    /\ run = 1
    /\ split = NoSplit

RollSpec == RollInit /\ [][EngineerFeatures]_vars

\* =================================================================== claims
Loaded == pc \in {"loaded", "engineered", "labeled", "prepared", "split"}
Engineered == pc \in {"engineered", "labeled", "prepared", "split"}
Labeled == pc \in {"labeled", "prepared", "split"}
Prepared == pc \in {"prepared", "split"}
Rows == heap[df].rows
FirstOfGroup(rows, i) == \A j \in 1..(i - 1) : ~SameGroup(rows[j], rows[i])
EarliestOfGroup(rows, i) ==
    \A j \in DOMAIN rows : SameGroup(rows[j], rows[i]) => ~CellLess(rows[j].Date, rows[i].Date)
PrevInGroup(rows, i) ==
    CHOOSE j \in 1..(i - 1) :
        /\ SameGroup(rows[j], rows[i])
        /\ \A k \in (j + 1)..(i - 1) : ~SameGroup(rows[k], rows[i])

\* r carries the observations of the input record g
SameRecord(r, g) ==
    /\ r.store = g.store /\ r.product = g.product
    /\ r.units = g.units /\ r.inv = g.inv
\* c is the date cell of the input record g, as text or parsed
DateOfRecord(c, g) ==
    \/ c = g.Date
    \/ Parseable(g.Date.text) /\ c = TsCell(ParseDate(g.Date.text))
\* rows is a rearrangement of the caller's records, none added or dropped
RearrangesGiven(rows) ==
    /\ Len(rows) = Len(given.rows)
    /\ {rows[i].rec : i \in DOMAIN rows} = DOMAIN given.rows
    /\ \A i \in DOMAIN rows :
          /\ SameRecord(rows[i], given.rows[rows[i].rec])
          /\ DateOfRecord(rows[i].Date, given.rows[rows[i].rec])

\* C1: after load_data, engineer_features and label_dead_stock the table still
\* holds exactly the input records, the latter two keep the row order, and the
\* returned features, labels and raw have the same length, the same index and,
\* at every position, come from the same input record.
C1_ViewsAligned ==
    /\ pc \in {"loaded", "engineered", "labeled"} => RearrangesGiven(Rows)
    /\ (call.fn \in {"engineer_features", "label_dead_stock"} /\ Loaded) =>
          [i \in DOMAIN Rows |-> Rows[i].rec] = [i \in DOMAIN call.pre.rows |-> call.pre.rows[i].rec]
    /\ Prepared =>
          LET f == heap[data.features]
              l == heap[data.labels]
              r == heap[data.raw]
          IN /\ Len(f.rows) = Len(r.rows) /\ Len(l.values) = Len(r.rows)
             /\ f.index = r.index /\ l.index = r.index
             /\ RearrangesGiven(r.rows)
             /\ \A i \in DOMAIN r.rows :
                   /\ f.rows[i].rec = r.rows[i].rec
                   /\ SameRecord(f.rows[i], given.rows[r.rows[i].rec])
                   /\ f.rows[i].day_of_year = ParseDate(given.rows[r.rows[i].rec].Date.text)
                   /\ f.rows[i].risk_score = r.rows[i].risk_score
                   /\ l.rec[i] = r.rows[i].rec
                   /\ l.values[i] = r.rows[i].dead_stock_label
C1_Witness ==
    /\ pc = "prepared"
    /\ Len(heap[data.raw].rows) >= 2
    /\ heap[data.raw].rows[1].rec # 1
    /\ \E i, j \in DOMAIN heap[data.labels].values :
          heap[data.labels].values[i] # heap[data.labels].values[j]

\* C2 as stated: at the first row of every group days_since_sale is 0,
\* whatever that row's units_sold.
C2_FirstRowIsZero ==
    Engineered => \A i \in DOMAIN Rows : FirstOfGroup(Rows, i) => Rows[i].days_since_sale = 0
\* C2 amended: the first row of every group is its earliest row, and its
\* days_since_sale is 0 when its units_sold > 0 and 1 otherwise.
C2_FirstRowZeroOrOne ==
    Engineered =>
        \A i \in DOMAIN Rows :
            FirstOfGroup(Rows, i) =>
                /\ EarliestOfGroup(Rows, i)
                /\ Rows[i].days_since_sale = IF Gt(Rows[i].units, Zero) THEN 0 ELSE 1
C2_Witness ==
    /\ Engineered
    /\ \E i \in DOMAIN Rows :
          /\ i > 1
          /\ FirstOfGroup(Rows, i)
          /\ Rows[i].units = Zero
          /\ Rows[i].days_since_sale = 1

\* C3: at every row that is not the first of its group days_since_sale is 0
\* when units_sold > 0 and otherwise one more than at the preceding row of the
\* same group; a single group selling 5, 0, 0 gets 0, 1, 2.
SingleGroupSales(rows) ==
    /\ \A i \in DOMAIN rows : SameGroup(rows[i], rows[1])
    /\ [i \in DOMAIN rows |-> rows[i].units] = <<FromInt(5), Zero, Zero>>
C3_RunningCounter ==
    Engineered =>
        /\ \A i \in DOMAIN Rows :
              ~FirstOfGroup(Rows, i) =>
                  Rows[i].days_since_sale =
                      IF Gt(Rows[i].units, Zero) THEN 0
                      ELSE Rows[PrevInGroup(Rows, i)].days_since_sale + 1
        /\ SingleGroupSales(Rows) =>
              [i \in DOMAIN Rows |-> Rows[i].days_since_sale] = <<0, 1, 2>>
C3_Witness ==
    /\ Engineered
    /\ SingleGroupSales(Rows)
    /\ [i \in DOMAIN Rows |-> Rows[i].days_since_sale] = <<0, 1, 2>>

\* C4: every risk_score is a number in [0, 1] and every dead_stock_label is 0
\* or 1, also when an intermediate value is undefined or a column is all zero.
C4_ScoreAndLabelInRange ==
    Labeled =>
        \A i \in DOMAIN Rows :
            /\ ~Rows[i].risk_score.nan
            /\ Rows[i].risk_score.v >= 0 /\ Rows[i].risk_score.v <= EpsInv
            /\ Rows[i].dead_stock_label \in {0, 1}
C4_Witness ==
    /\ Labeled
    /\ \E i \in DOMAIN Rows : Rows[i].sell_through_rate.nan
    /\ \E i \in DOMAIN Rows : Rows[i].rolling_inventory_30 = Zero
    /\ \E i \in DOMAIN Rows : Rows[i].rolling_sales_7.nan /\ Rows[i].rolling_inventory_30.nan

\* C5 as stated: the train part has exactly floor(n * (1 - f)) rows, the test
\* part the remaining ones, and no train row is dated after a test row.
DateOfIndex(ix) ==
    heap[data.raw].rows[CHOOSE k \in DOMAIN heap[data.raw].index : heap[data.raw].index[k] = ix].Date
IsFloorOfShare(idx, n, tenths) == idx * 10 <= n * (10 - tenths) /\ n * (10 - tenths) < (idx + 1) * 10
C5_SplitSizesAndOrder ==
    /\ cut.idx # -1 => IsFloorOfShare(cut.idx, cut.n, cut.tenths)
    /\ pc = "split" =>
          /\ IsFloorOfShare(Len(split.train_X), split.n, split.test_size)
          /\ Len(split.train_X) + Len(split.test_X) = split.n
          /\ Len(split.train_y) = Len(split.train_X) /\ Len(split.test_y) = Len(split.test_X)
          /\ \A i \in DOMAIN split.train_index, j \in DOMAIN split.test_index :
                ~CellLess(DateOfIndex(split.test_index[j]), DateOfIndex(split.train_index[i]))

\* C6 as stated: after load_data, engineer_features or label_dead_stock returns,
\* the table it was given is as it was before the call, and the result is
\* another table.
C6_InputNeverMutated ==
    (call.fn \in {"load_data", "engineer_features", "label_dead_stock"} /\ exc = "") =>
        /\ heap[call.arg] = call.pre
        /\ call.ret # call.arg

\* C7 as stated: a source that is neither path nor table, a table without a
\* Date column, and a file or table whose Date column is absent or holds an
\* unparseable value all make load_data raise; a returned table has a
\* date/time Date column.
RejectedSource ==
    \/ source.kind \notin {"path", "frame"}
    \/ "Date" \notin given.columns
    \/ \E i \in DOMAIN given.rows : ~Parseable(given.rows[i].Date.text)
C7_LoadFailsFast ==
    call.fn = "load_data" =>
        /\ RejectedSource => exc # ""
        /\ exc = "" => heap[call.ret].dtype = "datetime64"

\* C8: dead_stock_label is 1 exactly when high_inventory holds together with
\* one of slow_turnover, no_sales_today, low_units_sold, or when
\* overstock_vs_forecast and weak_sell_through hold, high_inventory being
\* measured against the 45th percentile of rolling_inventory_30 over all rows;
\* so inventory - forecast > 50 with sell-through < 0.3 always gives label 1.
Percentile45(rows) ==
    LET I == {i \in DOMAIN rows : ~rows[i].rolling_inventory_30.nan}
        m == Cardinality(I)
        ord == CHOOSE f \in [1..m -> I] :
                  /\ \A a, b \in 1..m : a # b => f[a] # f[b]
                  /\ \A a \in 1..(m - 1) :
                        rows[f[a]].rolling_inventory_30.v <= rows[f[a + 1]].rolling_inventory_30.v
        v(k) == rows[ord[k]].rolling_inventory_30.v
        lo == (45 * (m - 1)) \div 100
        fr == (45 * (m - 1)) % 100
    IN IF fr = 0 THEN v(lo + 1) ELSE v(lo + 1) + ((v(lo + 2) - v(lo + 1)) * fr) \div 100
HighInv(rows, i) ==
    /\ ~rows[i].rolling_inventory_30.nan
    /\ rows[i].rolling_inventory_30.v > Percentile45(rows)
SlowTurn(r) ==
    /\ ~r.rolling_sales_7.nan /\ ~r.rolling_inventory_30.nan
    /\ 10 * r.rolling_sales_7.v <= r.rolling_inventory_30.v
WeakSell(r) == ~r.sell_through_rate.nan /\ 10 * r.sell_through_rate.v < 3 * EpsInv
Overstock(r) == ~r.inv.nan /\ r.inv.v - r.forecast.v > 50 * EpsInv
NoSales(r) == ~r.units.nan /\ r.units.v = 0
LowSales(r) == ~r.units.nan /\ r.units.v <= 5 * EpsInv
C8_LabelIffRule ==
    Labeled =>
        \A i \in DOMAIN Rows :
            /\ Rows[i].dead_stock_label = 1 <=>
                  \/ HighInv(Rows, i) /\ (SlowTurn(Rows[i]) \/ NoSales(Rows[i]) \/ LowSales(Rows[i]))
                  \/ Overstock(Rows[i]) /\ WeakSell(Rows[i])
            /\ Rows[i].dead_stock_label \in {0, 1}
            /\ (Overstock(Rows[i]) /\ WeakSell(Rows[i])) => Rows[i].dead_stock_label = 1
C8_Witness ==
    /\ Labeled
    /\ \E i \in DOMAIN Rows :
          /\ Overstock(Rows[i]) /\ WeakSell(Rows[i]) /\ ~HighInv(Rows, i)
          /\ Rows[i].dead_stock_label = 1
    /\ \E i \in DOMAIN Rows : Rows[i].dead_stock_label = 0

\* C9: the three normalised columns are numbers in [0, 1]; the first two are
\* (value - min) / (max - min) over all rows and all 0 when max = min; the
\* third is value / max and all 0 when max is 0.
Defined(raw) == {raw[i].v : i \in {j \in DOMAIN raw : ~raw[j].nan}}
MinOf(S) == CHOOSE m \in S : \A x \in S : m <= x
MaxOf(S) == CHOOSE m \in S : \A x \in S : x <= m
IsQuotient(q, num, den) == q * den <= num * EpsInv /\ num * EpsInv < (q + 1) * den
InUnit(a) == ~a.nan /\ a.v >= 0 /\ a.v <= EpsInv
IsMinMax(raw, norm) ==
    LET S == Defined(raw) IN
    \A i \in DOMAIN raw :
        /\ InUnit(norm[i])
        /\ (raw[i].nan \/ MaxOf(S) = MinOf(S)) => norm[i].v = 0
        /\ (~raw[i].nan /\ MaxOf(S) # MinOf(S)) =>
              IsQuotient(norm[i].v, raw[i].v - MinOf(S), MaxOf(S) - MinOf(S))
SmallEnough(x) == x <= 2000000
IsShareOfMax(raw, norm) ==
    LET S == Defined(raw) IN
    \A i \in DOMAIN raw :
        /\ InUnit(norm[i])
        /\ (raw[i].nan \/ MaxOf(S) = 0) => norm[i].v = 0
        /\ (~raw[i].nan /\ MaxOf(S) # 0) =>
              /\ raw[i].v = MaxOf(S) => norm[i].v = EpsInv
              /\ raw[i].v = 0 => norm[i].v = 0
              /\ SmallEnough(raw[i].v) => IsQuotient(norm[i].v, raw[i].v, MaxOf(S))
              /\ \A j \in DOMAIN raw :
                    (~raw[j].nan /\ raw[j].v <= raw[i].v) => norm[j].v <= norm[i].v
ColumnOf(col) == [i \in DOMAIN Rows |-> Rows[i][col]]
C9_NormsDefined ==
    Engineered =>
        /\ IsMinMax(ColumnOf("rolling_inventory_30"), ColumnOf("rolling_inventory_30_norm"))
        /\ IsMinMax([i \in DOMAIN Rows |-> FromInt(Rows[i].days_since_sale)],
                    ColumnOf("days_since_sale_norm"))
        /\ IsShareOfMax(ColumnOf("sell_through_rate"), ColumnOf("sell_through_rate_norm"))
C9_Witness ==
    /\ Engineered
    /\ Len(Rows) >= 2
    /\ \A i \in DOMAIN Rows :
          /\ Rows[i].rolling_inventory_30 = FromInt(100)
          /\ Rows[i].sell_through_rate = Zero
          /\ Rows[i].rolling_inventory_30_norm = Zero
          /\ Rows[i].sell_through_rate_norm = Zero
    /\ \E i \in DOMAIN Rows : Rows[i].days_since_sale_norm = One

\* C10: a second prepare_dataset on the same source ends as the first did, with
\* equal features, labels and raw, and the caller's source is never changed.
C10_SecondRunIdentical ==
    /\ heap[SRC] = given
    /\ (run = 2 /\ Prepared) => first = [exc |-> ""] @@ ValuesOf(heap, data)
    /\ (run = 2 /\ pc = "raised") => first = [exc |-> exc]
C10_Witness ==
    /\ run = 2 /\ pc = "prepared"
    /\ source.kind = "frame"
    /\ Len(heap[data.raw].rows) >= 2
    /\ heap[data.raw].rows[1].rec # 1
    /\ first.raw = heap[data.raw]

\* the date a cell stands for, and whether it stands for one
HasDate(c) == IsTs(c) \/ Parseable(c.text)
DateValue(c) == IF IsTs(c) THEN c.ts ELSE ParseDate(c.text)
\* r1 must come after r2 in (store, product, date) order
ComesAfter(r1, r2) ==
    \/ r1.store > r2.store
    \/ r1.store = r2.store /\ r1.product > r2.product
    \/ /\ SameGroup(r1, r2) /\ HasDate(r1.Date) /\ HasDate(r2.Date)
       /\ DateValue(r1.Date) > DateValue(r2.Date)
C11_SortedWhenParsed ==
    (pc = "loaded" /\ call.fn = "load_data" /\ heap[df].dtype = "datetime64") =>
        /\ RearrangesGiven(Rows)
        /\ heap[df].index = RangeIndex(Len(Rows))
        /\ \A i, j \in DOMAIN Rows : i < j => ~ComesAfter(Rows[i], Rows[j])

\* the rows of row i's group from w - 1 rows before i up to i, in table order
WindowRows(rows, i, w) ==
    {j \in DOMAIN rows :
        /\ SameGroup(rows[j], rows[i]) /\ j <= i
        /\ Cardinality({m \in DOMAIN rows : SameGroup(rows[m], rows[i]) /\ j < m /\ m <= i}) < w}
RECURSIVE SumOver(_, _, _)
SumOver(rows, col, S) ==
    IF S = {} THEN 0
    ELSE LET j == CHOOSE x \in S : TRUE IN rows[j][col].v + SumOver(rows, col, S \ {j})
IsMean(q, total, count) == q * count <= total /\ total < (q + 1) * count
\* the value is the mean of column col over every row of the window
MeanOfAll(a, rows, col, i, w) ==
    LET W == WindowRows(rows, i, w) IN
    /\ ~a.nan
    /\ \A j \in W : ~rows[j][col].nan
    /\ IsMean(a.v, SumOver(rows, col, W), Cardinality(W))
\* the value is the mean of column col over the rows of the window that have one
MeanOfObserved(a, rows, col, i, w) ==
    LET O == {j \in WindowRows(rows, i, w) : ~rows[j][col].nan} IN
    IF O = {} THEN a.nan
    ELSE ~a.nan /\ IsMean(a.v, SumOver(rows, col, O), Cardinality(O))
\* C12 as stated: each rolling column is the mean over all rows of its
\* trailing window within the group and is defined at every row.
C12_TrailingMeans ==
    Engineered => \A i \in DOMAIN Rows :
        /\ MeanOfAll(Rows[i].rolling_sales_7, Rows, "units", i, Window7)
        /\ MeanOfAll(Rows[i].rolling_sales_30, Rows, "units", i, Window30)
        /\ MeanOfAll(Rows[i].rolling_inventory_30, Rows, "inv", i, Window30)
\* C12 amended: each rolling column is the mean of the values present among
\* the last 7 (30) rows of the same group up to the row, and is missing only
\* when none of those rows has a value.
C12_TrailingMeansOfObserved ==
    Engineered => \A i \in DOMAIN Rows :
        /\ MeanOfObserved(Rows[i].rolling_sales_7, Rows, "units", i, Window7)
        /\ MeanOfObserved(Rows[i].rolling_sales_30, Rows, "units", i, Window30)
        /\ MeanOfObserved(Rows[i].rolling_inventory_30, Rows, "inv", i, Window30)
C12_Witness ==
    /\ pc = "engineered"
    /\ \E i, j \in DOMAIN Rows :
          /\ ~SameGroup(Rows[i], Rows[j])
          /\ Cardinality(WindowRows(Rows, i, Window30 + 1)) > Window30
          /\ Rows[i].rolling_sales_7 # Rows[i].rolling_sales_30
          /\ ~Rows[i].rolling_sales_30.nan

\* the input record of each returned feature row, and the table rows by record
RecsOf(X) == {X[i].rec : i \in DOMAIN X}
RowOfRec(rows, rec) == rows[CHOOSE k \in DOMAIN rows : rows[k].rec = rec]
\* X[i] is a row of data.features without Date and label, and y[i] is the
\* dead_stock_label of that row's record
PairedWithOwnLabel(X, y) ==
    \A i \in DOMAIN X :
        /\ X[i] = RowOfRec(split.pre.features.rows, X[i].rec)
        /\ "Date" \notin DOMAIN X[i] /\ "dead_stock" \notin DOMAIN X[i]
        /\ y[i] = FromInt(RowOfRec(split.pre.raw.rows, X[i].rec).dead_stock_label)
\* C13: after train_test_split the train and test rows are disjoint and are
\* together the rows of data.features, each label stands at the position of
\* its own row, the returned rows carry neither Date nor label, and
\* data.features, data.labels and data.raw are as before the call.
C13_SplitPartitionsAndPairs ==
    pc = "split" =>
        /\ RecsOf(split.train_X) \cap RecsOf(split.test_X) = {}
        /\ RecsOf(split.train_X) \cup RecsOf(split.test_X) = RecsOf(split.pre.features.rows)
        /\ Len(split.train_X) + Len(split.test_X) = Len(split.pre.features.rows)
        /\ Len(split.train_y) = Len(split.train_X) /\ Len(split.test_y) = Len(split.test_X)
        /\ PairedWithOwnLabel(split.train_X, split.train_y)
        /\ PairedWithOwnLabel(split.test_X, split.test_y)
        /\ ValuesOf(heap, data) = split.pre
C13_Witness ==
    /\ pc = "split"
    /\ split.train_X # <<>> /\ split.test_X # <<>>
    /\ split.train_index[1] # 0
    /\ \E i \in DOMAIN split.test_y : split.test_y[i] # split.train_y[1]
====
